---- MODULE Spec2Model ----
(***************************************************************************)
(* ArtConnect AI (app.py): the opportunity scoring pipeline, the reply     *)
(* drafter and the decision log, modelled as state machines.               *)
(*                                                                         *)
(* Reals (Python floats) are exact rationals [n, d] in lowest terms with   *)
(* d > 0; the float NaN is the rational with d = 0.  Wall-clock time and   *)
(* parsed timestamps are integers counting ticks, TicksPerDay to a day.    *)
(* A DataFrame row is a function from column labels to cells.  For the     *)
(* columns scoring reads (text_content, user_followers, timestamp) a label *)
(* that is not in the row's DOMAIN stands for a missing cell (NaN): the    *)
(* column itself is always there, or scoring raises.  For user_handle a    *)
(* label that is not in the DOMAIN is a column the batch does not have;    *)
(* the sample rows hold no missing user_handle cell.  Sample texts hold no *)
(* numerals, so read_csv's numeric type inference is not modelled.         *)
(***************************************************************************)
EXTENDS Integers, Sequences, FiniteSets, TLC

VARIABLES
    now,          \* datetime.now(), in ticks
    rc_ts,        \* SpecRecency: the timestamp cell handed to recency_factor
    rc_out,       \* SpecRecency: the value recency_factor returned
    rc_pc,        \* SpecRecency: "call" before the call, "returned" after it
    files_present,\* SpecScore: whether generate_fake_data.py has written the two files
    insta_file,   \* SpecScore: the records of data/instagram_sample.csv
    twitter_file, \* SpecScore: the records of data/twitter_sample.json
    tie_order,    \* SpecScore: the order this build's quicksort leaves equal keys in
    score_cache,  \* SpecScore: st.cache_data's entry for preprocess_and_score(raw_df)
    data_loaded,  \* SpecScore: the script's data_loaded flag
    scored_df,    \* SpecScore: the script's scored_df
    prev_scored,  \* SpecScore: scored_df of the script run before the last one
    runs,         \* SpecScore: how many times the script has run
    log_exists,   \* whether logs/actions_log.csv exists
    log_rows,     \* the rows of logs/actions_log.csv, as text cells
    written,      \* history: the row each completed log_action wrote for its decision
    logs_df,      \* Spec: the script's logs_df
    review_df,    \* Spec: the scored rows the review panel offers
    sel_row,      \* Spec: the script's row, the interaction selected for review
    default_reply,\* Spec: the drafted reply of the selected row
    edited_reply, \* Spec: the content of the editable reply box
    last_call,    \* SpecLogApi: history of the last log_action call
    pc,           \* SpecConc: where each session's log_action stands
    local_df,     \* SpecConc: each session's log_df
    pending,      \* SpecConc: each session's new_row
    overlap,      \* SpecConc: history: some log_action began while another was running
    calls         \* SpecConc: how many log_action calls each session has completed

recVars == <<rc_ts, rc_out, rc_pc>>

scoreVars == <<files_present, insta_file, twitter_file, tie_order, score_cache,
               data_loaded, scored_df, prev_scored, runs>>

logVars == <<log_exists, log_rows, written>>

uiVars == <<logs_df, review_df, sel_row, default_reply, edited_reply>>

apiVars == <<last_call>>

concVars == <<pc, local_df, pending, overlap, calls>>

appVars == <<logVars, uiVars, apiVars, concVars>>

vars == <<now, recVars, scoreVars, appVars>>

----------------------------------------------------------------------------
(* Bounds of the model *)

\* ticks per calendar day (the clock is finer than one day)
TicksPerDay == 2
\* how many ticks the clock may advance during a behaviour
MaxTicks == 2
\* how many records the two input files hold together
MaxBatch == 2
\* how many times the script runs during a behaviour
MaxRuns == 2
\* how many decisions the log may hold
MaxLogged == 2
\* how many decisions each of the two concurrent sessions logs
MaxCalls == 2

(* Program constants *)

\* default of recency_factor's days_window parameter
days_window == 30

----------------------------------------------------------------------------
(* Exact arithmetic standing for float arithmetic *)

Abs(x) == IF x < 0 THEN -x ELSE x

RECURSIVE GCD(_, _)
GCD(a, b) == IF b = 0 THEN a ELSE GCD(b, a % b)

NaN == [n |-> 0, d |-> 0]

IsNaN(x) == x.d = 0

Rat(n, d) ==
    IF d = 0 THEN NaN
    ELSE LET g == GCD(Abs(n), Abs(d))
             s == IF d < 0 THEN -1 ELSE 1
         IN  [n |-> (s * n) \div g, d |-> (s * d) \div g]

Int2Rat(i) == [n |-> i, d |-> 1]

RatAdd(x, y) ==
    IF IsNaN(x) \/ IsNaN(y) THEN NaN ELSE Rat(x.n * y.d + y.n * x.d, x.d * y.d)

RatSub(x, y) ==
    IF IsNaN(x) \/ IsNaN(y) THEN NaN ELSE Rat(x.n * y.d - y.n * x.d, x.d * y.d)

RatMul(x, y) ==
    IF IsNaN(x) \/ IsNaN(y) THEN NaN ELSE Rat(x.n * y.n, x.d * y.d)

RatDiv(x, y) ==
    IF IsNaN(x) \/ IsNaN(y) THEN NaN ELSE Rat(x.n * y.d, x.d * y.n)

\* comparisons with NaN are false, as for floats
RatLeq(x, y) == ~IsNaN(x) /\ ~IsNaN(y) /\ x.n * y.d <= y.n * x.d

RatLt(x, y) == ~IsNaN(x) /\ ~IsNaN(y) /\ x.n * y.d < y.n * x.d

----------------------------------------------------------------------------
(* Timestamps *)

\* the clock when the behaviour starts: the start of day days_window + 2
NowStart == (days_window + 2) * TicksPerDay

\* A timestamp cell: a string that strptime parses to the time t, or one
\* that it rejects.
Parsed(t) == [parses |-> TRUE, t |-> t]

Unparsable == [parses |-> FALSE, t |-> 0]

\* timestamps from more than days_window days before NowStart to after the
\* last clock value
TimestampInputs ==
    {Parsed(t) : t \in 0 .. (NowStart + MaxTicks + TicksPerDay)} \cup {Unparsable}

\* timedelta.days of (now - ts): the floor of the difference in days
days_diff(ts, clock) == (clock - ts.t) \div TicksPerDay

\* recency_factor without the branch for days_diff >= days_window
recency_factor_nowindow(ts, window, clock) ==
    IF ~ts.parses THEN Rat(1, 2)
    ELSE IF days_diff(ts, clock) <= 0 THEN Int2Rat(1)
    ELSE RatSub(Int2Rat(1), Rat(days_diff(ts, clock), window))

\* recency_factor(ts_str, days_window), with the clock it reads made explicit
recency_factor(ts, window, clock) ==
    IF ~ts.parses THEN Rat(1, 2)
    ELSE IF days_diff(ts, clock) <= 0 THEN Int2Rat(1)
    ELSE IF days_diff(ts, clock) >= window THEN Int2Rat(0)
    ELSE RatSub(Int2Rat(1), Rat(days_diff(ts, clock), window))

----------------------------------------------------------------------------
(* Text.  A text is a sequence of characters. *)

UpperCase == <<"A", "B", "C", "D", "E", "F", "G", "H", "I", "J", "K", "L", "M",
               "N", "O", "P", "Q", "R", "S", "T", "U", "V", "W", "X", "Y", "Z">>

LowerCase == <<"a", "b", "c", "d", "e", "f", "g", "h", "i", "j", "k", "l", "m",
               "n", "o", "p", "q", "r", "s", "t", "u", "v", "w", "x", "y", "z">>

\* str.lower(), one character
lower_char(c) ==
    IF \E i \in 1 .. Len(UpperCase) : UpperCase[i] = c
    THEN LowerCase[CHOOSE i \in 1 .. Len(UpperCase) : UpperCase[i] = c]
    ELSE c

\* str.lower()
lower(t) == [i \in 1 .. Len(t) |-> lower_char(t[i])]

\* kw in t, for strings
Contains(t, kw) ==
    \E i \in 1 .. (Len(t) - Len(kw) + 1) : SubSeq(t, i, i + Len(kw) - 1) = kw

kw_commission == <<"c", "o", "m", "m", "i", "s", "s", "i", "o", "n">>
kw_buy == <<"b", "u", "y">>
kw_price == <<"p", "r", "i", "c", "e">>
kw_prints == <<"p", "r", "i", "n", "t", "s">>
kw_print == <<"p", "r", "i", "n", "t">>
kw_gallery == <<"g", "a", "l", "l", "e", "r", "y">>
kw_curator == <<"c", "u", "r", "a", "t", "o", "r">>
kw_collector == <<"c", "o", "l", "l", "e", "c", "t", "o", "r">>
kw_feature == <<"f", "e", "a", "t", "u", "r", "e">>
kw_represent == <<"r", "e", "p", "r", "e", "s", "e", "n", "t">>

HIGH_VALUE_KEYWORDS ==
    {kw_commission, kw_buy, kw_price, kw_prints, kw_print,
     kw_gallery, kw_curator, kw_collector, kw_feature, kw_represent}

\* the texts of the sample records
TextPrice == <<"P", "r", "i", "c", "e", "?">>
TextLove == <<"L", "o", "v", "e", " ", "t", "h", "i", "s", "!">>
TextHatePrint == <<"H", "a", "t", "e", " ", "p", "r", "i", "n", "t">>
TextCurator == <<"I", "'", "m", " ", "a", " ", "C", "u", "r", "a", "t", "o", "r">>

\* str(x) of a missing cell (the float nan)
TextNan == <<"n", "a", "n">>

----------------------------------------------------------------------------
(* DataFrame rows *)

\* the value of column c in row r; NaN when the cell is missing
IsMissing(r, c) == c \notin DOMAIN r

\* str(r[c]) for a text column
str_cell(r, c) == IF IsMissing(r, c) THEN TextNan ELSE r[c]

\* r extended with the column c holding v
WithColumn(r, c, v) ==
    [k \in DOMAIN r \cup {c} |-> IF k = c THEN v ELSE r[k]]

----------------------------------------------------------------------------
(* Scoring & preprocessing *)

\* keyword_factor(text)
keyword_factor(r) ==
    IF \E kw \in HIGH_VALUE_KEYWORDS : Contains(lower(str_cell(r, "text_content")), kw)
    THEN 1 ELSE 0

\* analyzer.polarity_scores(text)["compound"]: the VADER lexicon's compound
\* value of the sample texts, a number in [-1, 1] with four decimals
polarity_compound(t) ==
    IF t = TextLove THEN Rat(6696, 10000)
    ELSE IF t = TextHatePrint THEN Rat(-5719, 10000)
    ELSE Int2Rat(0)

\* sentiment_factor(text)
sentiment_factor(r) ==
    LET compound == polarity_compound(str_cell(r, "text_content"))
    IN  IF RatLeq(compound, Int2Rat(0)) THEN Int2Rat(0)
        ELSE RatDiv(RatAdd(compound, Int2Rat(1)), Int2Rat(2))

\* df["user_followers"].max(): the largest value that is not missing, NaN
\* when there is none
followers_max(df) ==
    LET present == {df[i].user_followers :
                        i \in {j \in 1 .. Len(df) : ~IsMissing(df[j], "user_followers")}}
    IN  IF present = {} THEN NaN
        ELSE Int2Rat(CHOOSE m \in present : \A f \in present : f <= m)

\* max_followers = df["user_followers"].max() if that is > 0 else 1
max_followers(df) ==
    IF RatLt(Int2Rat(0), followers_max(df)) THEN followers_max(df) ELSE Int2Rat(1)

\* df["user_followers"] / max_followers, one row
user_influence(r, df) ==
    IF IsMissing(r, "user_followers") THEN NaN
    ELSE RatDiv(Int2Rat(r.user_followers), max_followers(df))

\* df["timestamp"].apply(recency_factor), one row: strptime raises on a
\* missing cell too, and the except clause returns the fallback
recency_of(r, clock) ==
    IF IsMissing(r, "timestamp") THEN Rat(1, 2)
    ELSE recency_factor(r.timestamp, days_window, clock)

W_K == Rat(50, 100)
W_S == Rat(30, 100)
W_U == Rat(15, 100)
W_R == Rat(5, 100)

\* Series.clip(lo, hi): NaN stays NaN
clip(x, lo, hi) ==
    IF IsNaN(x) THEN NaN
    ELSE IF RatLt(x, lo) THEN lo
    ELSE IF RatLt(hi, x) THEN hi
    ELSE x

\* the integer nearest to n/d (d > 0), halves to the even one
rint(n, d) ==
    LET q == n \div d
        r == n % d
    IN  IF 2 * r < d THEN q
        ELSE IF 2 * r > d THEN q + 1
        ELSE IF q % 2 = 0 THEN q ELSE q + 1

\* Series.round(2)
round_two_decimals(x) ==
    IF IsNaN(x) THEN NaN ELSE Rat(rint(100 * x.n, x.d), 100)

\* Series.round(1)
round1(x) ==
    IF IsNaN(x) THEN NaN ELSE Rat(rint(10 * x.n, x.d), 10)

\* the row with its four factors and its opportunity_score
score_row(r, df, clock) ==
    LET K == Int2Rat(keyword_factor(r))
        S == sentiment_factor(r)
        U == user_influence(r, df)
        R == recency_of(r, clock)
        raw_score == RatAdd(RatAdd(RatAdd(RatMul(K, W_K), RatMul(S, W_S)),
                                   RatMul(U, W_U)), RatMul(R, W_R))
        score == round1(clip(RatMul(raw_score, Int2Rat(100)), Int2Rat(0), Int2Rat(100)))
    IN  [k \in DOMAIN r \cup {"keyword_factor", "sentiment_factor", "user_influence",
                              "recency_factor", "opportunity_score"} |->
            CASE k = "keyword_factor" -> K
              [] k = "sentiment_factor" -> S
              [] k = "user_influence" -> U
              [] k = "recency_factor" -> R
              [] k = "opportunity_score" -> score
              [] OTHER -> r[k]]

\* df.sort_values(by="opportunity_score", ascending=False): whether the row
\* at position i of df comes before the row at position j.  The default
\* kind, quicksort, is not a stable sort: equal keys come out in an order of
\* the build's own, here either the input order or its reverse.  Missing
\* scores go last (na_position="last"), in input order.
sorts_before(df, i, j, ties) ==
    LET si == df[i].opportunity_score
        sj == df[j].opportunity_score
    IN  IF IsNaN(si) /\ IsNaN(sj) THEN i < j
        ELSE IF IsNaN(si) THEN FALSE
        ELSE IF IsNaN(sj) THEN TRUE
        ELSE IF si = sj THEN (IF ties = "input" THEN i < j ELSE j < i)
        ELSE RatLt(sj, si)

\* sort_values(...).reset_index(drop=True)
sort_values(df, ties) ==
    LET rank(i) == Cardinality({j \in 1 .. Len(df) : sorts_before(df, j, i, ties)})
    IN  [p \in 1 .. Len(df) |-> df[CHOOSE i \in 1 .. Len(df) : rank(i) = p - 1]]

\* preprocess_and_score(df), with the clock it reads made explicit
preprocess_and_score(df, clock, ties) ==
    sort_values([i \in 1 .. Len(df) |-> score_row(df[i], df, clock)], ties)

\* load_data(): the Instagram rows followed by the Twitter rows
\* (pd.concat(..., ignore_index=True)); a key a record lacks is a missing cell
load_data(insta, twitter) == insta \o twitter

----------------------------------------------------------------------------
(* Reply generator *)

CommissionKeywords == {kw_commission, kw_buy, kw_price, kw_prints, kw_print}

GalleryKeywords == {kw_gallery, kw_curator, kw_collector, kw_represent, kw_feature}

\* the three templates, around the user they address
CommissionReply(user) ==
    "Thank you so much for your interest, " \o user \o "! "
    \o "I'd be happy to talk more about a commission or print options. "
    \o "Could you please send me a message or email with a bit more detail about what you have in mind?"

GalleryReply(user) ==
    "Hi " \o user \o ", I really appreciate you reaching out. "
    \o "I'd love to learn more about your gallery/collection and see if my work could be a good fit. "
    \o "Feel free to contact me so we can talk more about it."

GenericReply(user) ==
    "Thank you so much, " \o user \o "! "
    \o "I really appreciate your kind words and support. "
    \o "This piece was inspired by my love for color and texture, "
    \o "so it means a lot that it resonated with you."

\* generate_reply(row).  row.get("user_handle", "@collector") gives the
\* default only when the row has no user_handle label at all.
generate_reply(row) ==
    LET user == IF "user_handle" \in DOMAIN row THEN row.user_handle ELSE "@collector"
        text == lower(str_cell(row, "text_content"))
    IN  IF \E kw \in CommissionKeywords : Contains(text, kw) THEN CommissionReply(user)
        ELSE IF \E kw \in GalleryKeywords : Contains(text, kw) THEN GalleryReply(user)
        ELSE GenericReply(user)

----------------------------------------------------------------------------
(* The decision log, logs/actions_log.csv.  The file is a sequence of rows   *)
(* of text cells.  A cell of the DataFrame read from it is <<s>> for the     *)
(* string s and <<>> for a missing value (NaN).                              *)

LogColumns == {"timestamp", "interaction_id", "platform", "user_handle",
               "action", "original_reply", "final_reply"}

\* the cell texts pd.read_csv takes for a missing value (its default na_values)
NaValues == {"", "#N/A", "#N/A N/A", "#NA", "-1.#IND", "-1.#QNAN", "-NaN", "-nan",
             "1.#IND", "1.#QNAN", "<NA>", "N/A", "NA", "NULL", "NaN", "None",
             "n/a", "nan", "null"}

\* pd.read_csv, one cell
parse_cell(s) == IF s \in NaValues THEN <<>> ELSE <<s>>

\* DataFrame.to_csv, one cell: a missing value is written as the empty text
format_cell(v) == IF v = <<>> THEN "" ELSE v[1]

\* pd.read_csv(LOG_PATH)
read_csv(rows) ==
    [i \in 1 .. Len(rows) |-> [c \in LogColumns |-> parse_cell(rows[i][c])]]

\* log_df.to_csv(LOG_PATH, index=False)
to_csv(df) ==
    [i \in 1 .. Len(df) |-> [c \in LogColumns |-> format_cell(df[i][c])]]

\* datetime.now().strftime("%Y-%m-%d %H:%M:%S")
strftime(clock) == "t" \o ToString(clock)

\* the new_row dictionary of log_action
new_row(row, action, original_reply, final_reply, clock) ==
    [timestamp |-> <<strftime(clock)>>,
     interaction_id |-> <<row.interaction_id>>,
     platform |-> <<row.platform>>,
     user_handle |-> <<row.user_handle>>,
     action |-> <<action>>,
     original_reply |-> <<original_reply>>,
     final_reply |-> <<final_reply>>]

\* pd.concat([log_df, pd.DataFrame([new_row])], ignore_index=True) with the
\* rows read before left out
concat_dropping(log_df, row) == <<row>>

\* pd.concat([log_df, pd.DataFrame([new_row])], ignore_index=True)
concat(log_df, row) == Append(log_df, row)

\* init_log_file(): the rows of the file once it exists; a file that was not
\* there is written with the header alone
init_log_file(exists, rows) == IF exists THEN rows ELSE <<>>

\* whether building new_row raises KeyError: row[...] of a label the row lacks
log_action_raises(row) ==
    ~({"interaction_id", "platform", "user_handle"} \subseteq DOMAIN row)

\* the file after log_action(row, action, original_reply, final_reply), given
\* the rows it held before (none when init_log_file has just made it)
log_action(rows, row, action, original_reply, final_reply, clock) ==
    IF log_action_raises(row) THEN rows
    ELSE to_csv(concat(read_csv(rows),
                       new_row(row, action, original_reply, final_reply, clock)))

\* the row log_action hands to to_csv for its own decision, as file text
written_row(row, action, original_reply, final_reply, clock) ==
    [c \in LogColumns |->
        format_cell(new_row(row, action, original_reply, final_reply, clock)[c])]

\* load_logs(): the DataFrame read from the file
load_logs(rows) == read_csv(rows)

----------------------------------------------------------------------------
(* The records of the two input files *)

\* timestamps of the sample records: written at NowStart, 15 days before it,
\* and a tick less than 30 days before it
ts_recent == Parsed(NowStart)
ts_mid == Parsed(NowStart - 15 * TicksPerDay)
ts_old == Parsed(NowStart - 30 * TicksPerDay + 1)

\* Records as the files may hold them.  The last three lack a required
\* field: an empty cell of the CSV file, a missing key of a JSON record.
SampleRecords ==
    { [user_handle |-> "@ArtLover1", user_followers |-> 2,
       text_content |-> TextPrice, timestamp |-> ts_recent],
      [user_handle |-> "@ArtLover1", user_followers |-> 1,
       text_content |-> TextLove, timestamp |-> ts_mid],
      [user_handle |-> "@ArtLover1", user_followers |-> 0,
       text_content |-> TextHatePrint, timestamp |-> ts_old],
      [user_handle |-> "@ArtLover1", user_followers |-> 2,
       text_content |-> TextLove, timestamp |-> Unparsable],
      [user_handle |-> "@ArtLover1", user_followers |-> 1,
       timestamp |-> ts_recent],
      [user_handle |-> "@ArtLover1",
       text_content |-> TextPrice, timestamp |-> ts_mid],
      [user_handle |-> "@ArtLover1", user_followers |-> 1,
       text_content |-> TextLove] }

RequiredFields == {"text_content", "user_followers", "timestamp"}

\* record i of a file, with the interaction_id and platform the generator
\* gives it
FileRecord(r, prefix, platform, i) ==
    WithColumn(WithColumn(r, "interaction_id", prefix \o "-000" \o ToString(i)),
               "platform", platform)

RecencyIdle ==
    /\ rc_ts = Unparsable
    /\ rc_out = NaN
    /\ rc_pc = "call"

ScoreIdle ==
    /\ files_present = FALSE
    /\ insta_file = <<>>
    /\ twitter_file = <<>>
    /\ tie_order = "input"
    /\ score_cache = <<>>
    /\ data_loaded = FALSE
    /\ scored_df = <<>>
    /\ prev_scored = <<>>
    /\ runs = 0

\* the browser sessions that may log decisions at the same time
Sessions == {1, 2}

LogIdle ==
    /\ log_exists = FALSE
    /\ log_rows = <<>>
    /\ written = <<>>

UiIdle ==
    /\ logs_df = <<>>
    /\ review_df = <<>>
    /\ sel_row = <<>>
    /\ default_reply = ""
    /\ edited_reply = ""

ApiIdle == last_call = [made |-> FALSE, action |-> "", raised |-> FALSE, before |-> <<>>]

ConcIdle ==
    /\ pc = [s \in Sessions |-> "idle"]
    /\ local_df = [s \in Sessions |-> <<>>]
    /\ pending = [s \in Sessions |-> <<>>]
    /\ overlap = FALSE
    /\ calls = [s \in Sessions |-> 0]

AppIdle == LogIdle /\ UiIdle /\ ApiIdle /\ ConcIdle

----------------------------------------------------------------------------
(* SpecRecency: recency_factor applied to one timestamp at a time *)

RecencyInit ==
    /\ now = NowStart
    /\ rc_ts \in TimestampInputs
    /\ rc_out = NaN
    /\ rc_pc = "call"
    /\ ScoreIdle
    /\ AppIdle

\* the call df["timestamp"].apply(recency_factor) makes for one cell
RecencyApply ==
    /\ rc_pc = "call"
    /\ rc_out' = recency_factor(rc_ts, days_window, now)
    /\ rc_pc' = "returned"
    /\ UNCHANGED <<now, rc_ts, scoreVars, appVars>>

\* the next cell of the column
RecencyNextCell ==
    /\ rc_pc = "returned"
    /\ rc_ts' \in TimestampInputs
    /\ rc_out' = NaN
    /\ rc_pc' = "call"
    /\ UNCHANGED <<now, scoreVars, appVars>>

\* the wall clock advances
RecencyTick ==
    /\ rc_pc = "call"
    /\ now < NowStart + MaxTicks
    /\ now' = now + 1
    /\ UNCHANGED <<recVars, scoreVars, appVars>>

RecencyNext == RecencyApply \/ RecencyNextCell \/ RecencyTick

SpecRecency == RecencyInit /\ [][RecencyNext]_vars

\* the whole-day difference between two instants, by its defining inequality
WholeDays(ts, clock) ==
    CHOOSE k \in -(NowStart + MaxTicks + TicksPerDay) .. (NowStart + MaxTicks + TicksPerDay) :
        k * TicksPerDay <= clock - ts.t /\ clock - ts.t < (k + 1) * TicksPerDay

\* C9: for a timestamp that parses, recency_factor is 1 when the whole-day
\* difference d is <= 0, 0 when d >= 30 and 1 - d/30 in between; it lies in
\* [0, 1] and does not increase with d; for a timestamp that does not parse
\* it returns 0.5.
C9_RecencyFactor ==
    rc_pc = "returned" =>
        /\ ~IsNaN(rc_out)
        /\ RatLeq(Int2Rat(0), rc_out) /\ RatLeq(rc_out, Int2Rat(1))
        /\ ~rc_ts.parses => rc_out = [n |-> 1, d |-> 2]
        /\ rc_ts.parses =>
              LET d == WholeDays(rc_ts, now)
              IN  /\ d <= 0 => rc_out = [n |-> 1, d |-> 1]
                  /\ d >= 30 => rc_out = [n |-> 0, d |-> 1]
                  /\ (0 < d /\ d < 30) => rc_out.n * 30 = (30 - d) * rc_out.d
                  /\ d = 15 => rc_out = [n |-> 1, d |-> 2]
                  /\ \A other \in TimestampInputs :
                        (other.parses /\ WholeDays(other, now) >= d)
                            => RatLeq(recency_factor(other, days_window, now), rc_out)

\* C9 witness: a timestamp 15 whole days old has been given the factor 0.5
C9_Witness ==
    /\ rc_pc = "returned"
    /\ rc_ts.parses
    /\ WholeDays(rc_ts, now) = 15
    /\ rc_out = [n |-> 1, d |-> 2]

----------------------------------------------------------------------------
(* SpecScore: the script's loading and scoring, run after run *)

ScoreInit ==
    /\ now = NowStart
    /\ RecencyIdle
    /\ AppIdle
    /\ score_cache = <<>>
    /\ data_loaded = FALSE
    /\ scored_df = <<>>
    /\ prev_scored = <<>>
    /\ runs = 0
    /\ \/ /\ files_present = FALSE
          /\ insta_file = <<>>
          /\ twitter_file = <<>>
          /\ tie_order = "input"
       \/ /\ files_present = TRUE
          /\ tie_order \in {"input", "reversed"}
          /\ \E ni \in 0 .. MaxBatch : \E nt \in 0 .. MaxBatch :
                /\ 1 <= ni + nt /\ ni + nt <= MaxBatch
                /\ \E fi \in [1 .. ni -> SampleRecords] :
                      insta_file = [i \in 1 .. ni |-> FileRecord(fi[i], "INS", "Instagram", i)]
                /\ \E ft \in [1 .. nt -> SampleRecords] :
                      twitter_file = [i \in 1 .. nt |-> FileRecord(ft[i], "TWI", "Twitter", i)]

\* the script's raw_df
raw_df == load_data(insta_file, twitter_file)

\* The script's try block when both files are there: load_data(), then
\* preprocess_and_score(raw_df) through st.cache_data, which computes the
\* value once and returns the stored one afterwards.
RunScriptLoaded ==
    /\ files_present
    /\ runs < MaxRuns
    /\ LET result == IF score_cache # <<>> THEN score_cache[1]
                     ELSE preprocess_and_score(raw_df, now, tie_order)
       IN  /\ score_cache' = <<result>>
           /\ scored_df' = result
    /\ prev_scored' = scored_df
    /\ data_loaded' = TRUE
    /\ runs' = runs + 1
    /\ UNCHANGED <<now, recVars, appVars, files_present, insta_file, twitter_file, tie_order>>

\* The script's except block: opening a file that is not there raises
RunScriptFailed ==
    /\ ~files_present
    /\ runs < MaxRuns
    /\ data_loaded' = FALSE
    /\ runs' = runs + 1
    /\ UNCHANGED <<now, recVars, appVars, files_present, insta_file, twitter_file, tie_order,
                   score_cache, scored_df, prev_scored>>

\* st.cache_data loses its entries: the cache is cleared, or the server
\* process is started again
ClearCache ==
    /\ score_cache # <<>>
    /\ score_cache' = <<>>
    /\ UNCHANGED <<now, recVars, appVars, files_present, insta_file, twitter_file, tie_order,
                   data_loaded, scored_df, prev_scored, runs>>

\* the wall clock advances
Tick ==
    /\ now < NowStart + MaxTicks
    /\ now' = now + 1
    /\ UNCHANGED <<recVars, scoreVars, appVars>>

ScoreNext == RunScriptLoaded \/ RunScriptFailed \/ ClearCache \/ Tick

SpecScore == ScoreInit /\ [][ScoreNext]_vars

\* every record of both files has a follower count that is not negative
FollowersNonNegative ==
    \A i \in 1 .. Len(raw_df) :
        ~IsMissing(raw_df[i], "user_followers") /\ raw_df[i].user_followers >= 0

\* 100 * (0.50 K + 0.30 S + 0.15 U + 0.05 R) of a scored row, clamped to [0, 100]
ClampedRaw(row) ==
    LET x == Rat(50 * row.keyword_factor.n, row.keyword_factor.d)
        y == Rat(30 * row.sentiment_factor.n, row.sentiment_factor.d)
        z == Rat(15 * row.user_influence.n, row.user_influence.d)
        w == Rat(5 * row.recency_factor.n, row.recency_factor.d)
        t == RatAdd(RatAdd(x, y), RatAdd(z, w))
    IN  IF RatLt(t, Int2Rat(0)) THEN Int2Rat(0)
        ELSE IF RatLt(Int2Rat(100), t) THEN Int2Rat(100)
        ELSE t

\* C1: when no follower count is negative, every opportunity_score is in
\* [0, 100], is a multiple of 0.1, and is the multiple of 0.1 nearest to
\* clamp(100 * (0.50 K + 0.30 S + 0.15 U + 0.05 R), 0, 100).
C1_ScoreBounded ==
    (data_loaded /\ FollowersNonNegative) =>
        \A i \in 1 .. Len(scored_df) :
            LET s == scored_df[i].opportunity_score
                c == ClampedRaw(scored_df[i])
                e == RatSub(s, c)
            IN  /\ ~IsNaN(s)
                /\ RatLeq(Int2Rat(0), s) /\ RatLeq(s, Int2Rat(100))
                /\ (10 * s.n) % s.d = 0
                /\ 20 * Abs(e.n) <= e.d

\* C1 witness: a batch without negative follower counts has been scored,
\* and rounding changed the score of one of its rows
C1_Witness ==
    /\ data_loaded /\ FollowersNonNegative
    /\ \E i \in 1 .. Len(scored_df) :
          /\ scored_df[i].opportunity_score # ClampedRaw(scored_df[i])
          /\ RatLt(Int2Rat(50), scored_df[i].opportunity_score)

\* the position in raw_df of a scored row
PosInRaw(row) ==
    CHOOSE i \in 1 .. Len(raw_df) : raw_df[i].interaction_id = row.interaction_id

\* C2: the scored batch is ordered by opportunity_score descending, and rows
\* with equal scores keep the order they had in the batch from load_data.
C2_SortedStable ==
    data_loaded =>
        \A i \in 1 .. Len(scored_df) : \A j \in 1 .. Len(scored_df) :
            LET si == scored_df[i].opportunity_score
                sj == scored_df[j].opportunity_score
            IN  (i < j /\ ~IsNaN(si) /\ ~IsNaN(sj)) =>
                    /\ RatLeq(sj, si)
                    /\ si = sj => PosInRaw(scored_df[i]) < PosInRaw(scored_df[j])

\* some record of one of the files lacks a required field
SomeRecordLacksField ==
    \E i \in 1 .. Len(raw_df) : \E c \in RequiredFields : IsMissing(raw_df[i], c)

\* C6: when a record of either file lacks text_content, user_followers or
\* timestamp, the run fails with a data error and produces no scored batch.
C6_MissingFieldFails ==
    (runs > 0 /\ SomeRecordLacksField) => (~data_loaded /\ scored_df = <<>>)

\* C7: two runs of preprocess_and_score on the unchanged batch, at any two
\* times, give every interaction the same opportunity_score and the same
\* output order.
C7_ScoringIdempotent ==
    runs >= 2 => scored_df = prev_scored

----------------------------------------------------------------------------
(* Spec: one operator reviewing interactions and logging decisions *)

\* Scored rows as the review panel reads them.  The Twitter file may hold
\* an empty user_handle; a batch from files without a user_handle column
\* has rows without that label.
ReviewRowsWithHandle ==
    << [interaction_id |-> "INS-0001", platform |-> "Instagram",
        user_handle |-> "@ArtLover1", text_content |-> TextLove],
       [interaction_id |-> "INS-0002", platform |-> "Instagram",
        user_handle |-> "@CuratorMike7", text_content |-> TextCurator],
       [interaction_id |-> "TWI-0001", platform |-> "Twitter",
        user_handle |-> "@CollectorJane3", text_content |-> TextPrice],
       [interaction_id |-> "TWI-0002", platform |-> "Twitter",
        user_handle |-> "", text_content |-> TextPrice] >>

ReviewRowsWithoutHandle ==
    << [interaction_id |-> "INS-0001", platform |-> "Instagram",
        text_content |-> TextLove],
       [interaction_id |-> "TWI-0001", platform |-> "Twitter",
        text_content |-> TextPrice] >>

\* what the operator may type into the reply box
TypedReplies == {"Thanks!", "NA", ""}

ValidActions == {"APPROVE", "EDIT", "REJECT"}

\* The state after the script's first run: load_logs() has made the log
\* file, the selectbox shows its first option, the reply box the draft.
UiInit ==
    /\ now = NowStart
    /\ RecencyIdle
    /\ ScoreIdle
    /\ ApiIdle
    /\ ConcIdle
    /\ log_exists = TRUE
    /\ log_rows = <<>>
    /\ written = <<>>
    /\ logs_df = <<>>
    /\ review_df \in {ReviewRowsWithHandle, ReviewRowsWithoutHandle}
    /\ sel_row = review_df[1]
    /\ default_reply = generate_reply(review_df[1])
    /\ edited_reply = generate_reply(review_df[1])

\* The operator picks another interaction: the script runs again, reads the
\* log, drafts the reply, and the reply box shows the new draft (it keeps
\* its content when the draft is the same text).
SelectInteraction ==
    \E i \in 1 .. Len(review_df) :
        /\ review_df[i] # sel_row
        /\ sel_row' = review_df[i]
        /\ default_reply' = generate_reply(review_df[i])
        /\ edited_reply' = IF generate_reply(review_df[i]) = default_reply
                           THEN edited_reply ELSE generate_reply(review_df[i])
        /\ logs_df' = load_logs(log_rows)
        /\ UNCHANGED <<now, recVars, scoreVars, logVars, review_df, apiVars, concVars>>

\* The operator types into the reply box: the script runs again
TypeReply ==
    \E t \in TypedReplies :
        /\ t # edited_reply
        /\ edited_reply' = t
        /\ logs_df' = load_logs(log_rows)
        /\ UNCHANGED <<now, recVars, scoreVars, logVars, review_df, sel_row, default_reply,
                       apiVars, concVars>>

\* A button of the review panel is pressed: the script runs again, reads the
\* log into logs_df, and the button's branch calls
\* log_action(row, action, default_reply, edited_reply).
PressButton(action) ==
    /\ Len(log_rows) < MaxLogged
    /\ logs_df' = load_logs(log_rows)
    /\ log_rows' = log_action(init_log_file(log_exists, log_rows), sel_row, action,
                           default_reply, edited_reply, now)
    /\ written' = IF log_action_raises(sel_row) THEN written
                  ELSE Append(written,
                              written_row(sel_row, action, default_reply, edited_reply, now))
    /\ UNCHANGED <<now, recVars, scoreVars, log_exists, review_df, sel_row, default_reply,
                   edited_reply, apiVars, concVars>>

Approve == PressButton("APPROVE")

EditApprove == PressButton("EDIT")

Reject == PressButton("REJECT")

Next == SelectInteraction \/ TypeReply \/ Approve \/ EditApprove \/ Reject

Spec == UiInit /\ [][Next]_vars

\* C3: the log is append-only: each log_action has added one entry at the
\* end, every earlier entry is still there with the content and the position
\* it was written with, and load_logs returns all entries in append order.
C3_AppendOnly ==
    /\ log_rows = written
    /\ Len(load_logs(log_rows)) = Len(written)
    /\ \A i \in 1 .. Len(written) :
          load_logs(log_rows)[i].interaction_id = <<written[i].interaction_id>>

\* C5: every entry the buttons wrote has final_reply equal to original_reply
\* unless its action is EDIT, whatever the reply box held.
C5_FinalIsOriginalUnlessEdit ==
    \A i \in 1 .. Len(log_rows) :
        log_rows[i].action # "EDIT" => log_rows[i].final_reply = log_rows[i].original_reply

\* C8: for a row whose text holds a commission keyword the draft is the
\* commission template addressed to user_handle, and to @collector when
\* user_handle is absent or empty.
C8_CommissionReplyAddressee ==
    (\E kw \in CommissionKeywords : Contains(lower(str_cell(sel_row, "text_content")), kw)) =>
        default_reply =
            CommissionReply(IF "user_handle" \notin DOMAIN sel_row \/ sel_row.user_handle = ""
                            THEN "@collector" ELSE sel_row.user_handle)

----------------------------------------------------------------------------
(* SpecLogApi: log_action and load_logs called as functions *)

ApiInit ==
    /\ now = NowStart
    /\ RecencyIdle
    /\ ScoreIdle
    /\ LogIdle
    /\ UiIdle
    /\ ApiIdle
    /\ ConcIdle

\* what a caller may pass as action
ActionInputs == ValidActions \cup {"DELETE"}

\* log_action(row, action, original_reply, final_reply): init_log_file()
\* makes the file when it is not there, then the row is appended
CallLogAction ==
    \E i \in 1 .. Len(ReviewRowsWithHandle) : \E action \in ActionInputs :
    \E final \in TypedReplies \cup {generate_reply(ReviewRowsWithHandle[i])} :
        LET r == ReviewRowsWithHandle[i]
        IN  /\ Len(log_rows) < MaxLogged
            /\ log_exists' = TRUE
            /\ log_rows' = log_action(init_log_file(log_exists, log_rows), r, action,
                                   generate_reply(r), final, now)
            /\ written' = IF log_action_raises(r) THEN written
                          ELSE Append(written,
                                      written_row(r, action, generate_reply(r), final, now))
            /\ last_call' = [made |-> TRUE, action |-> action,
                             raised |-> log_action_raises(r), before |-> log_rows]
            /\ UNCHANGED <<now, recVars, scoreVars, uiVars, concVars>>

\* load_logs(): init_log_file() when the file is not there, then read_csv
CallLoadLogs ==
    /\ log_exists' = TRUE
    /\ logs_df' = load_logs(init_log_file(log_exists, log_rows))
    /\ logs_df' # logs_df \/ ~log_exists
    /\ UNCHANGED <<now, recVars, scoreVars, log_rows, written, review_df, sel_row,
                   default_reply, edited_reply, apiVars, concVars>>

ApiNext == CallLogAction \/ CallLoadLogs

SpecLogApi == ApiInit /\ [][ApiNext]_vars

\* C4: log_action with an action outside {APPROVE, EDIT, REJECT} signals a
\* contract violation and leaves the log unchanged, so every entry of the log
\* has one of the three actions.
C4_InvalidActionRejected ==
    /\ (last_call.made /\ last_call.action \notin ValidActions) =>
            (last_call.raised /\ log_rows = last_call.before)
    /\ \A i \in 1 .. Len(log_rows) : log_rows[i].action \in ValidActions

----------------------------------------------------------------------------
(* SpecConc: two sessions of the app logging decisions.  Each session runs *)
(* the script in a thread of its own, so the steps of two log_action calls *)
(* may interleave.                                                         *)

\* the interaction each session has selected, and its draft
SessionRow(s) == ReviewRowsWithHandle[s]

ConcInit ==
    /\ now = NowStart
    /\ RecencyIdle
    /\ ScoreIdle
    /\ UiIdle
    /\ ApiIdle
    /\ ConcIdle
    /\ log_exists = TRUE
    /\ log_rows = <<>>
    /\ written = <<>>

\* A button is pressed in session s: log_action builds its new_row
ConcPress(s) ==
    \E action \in ValidActions :
        /\ pc[s] = "idle"
        /\ calls[s] < MaxCalls
        /\ pending' = [pending EXCEPT ![s] =
                          new_row(SessionRow(s), action, generate_reply(SessionRow(s)),
                                  generate_reply(SessionRow(s)), now)]
        /\ overlap' = (overlap \/ \E o \in Sessions \ {s} : pc[o] # "idle")
        /\ pc' = [pc EXCEPT ![s] = "read"]
        /\ UNCHANGED <<now, recVars, scoreVars, logVars, uiVars, apiVars, local_df, calls>>

\* log_df = pd.read_csv(LOG_PATH)
ConcRead(s) ==
    /\ pc[s] = "read"
    /\ local_df' = [local_df EXCEPT ![s] = read_csv(init_log_file(log_exists, log_rows))]
    /\ pc' = [pc EXCEPT ![s] = "write"]
    /\ UNCHANGED <<now, recVars, scoreVars, logVars, uiVars, apiVars, pending, overlap, calls>>

\* log_df = pd.concat(...); log_df.to_csv(LOG_PATH, index=False)
ConcWrite(s) ==
    /\ pc[s] = "write"
    /\ log_rows' = to_csv(concat(local_df[s], pending[s]))
    /\ written' = Append(written, [c \in LogColumns |-> format_cell(pending[s][c])])
    /\ pc' = [pc EXCEPT ![s] = "idle"]
    /\ calls' = [calls EXCEPT ![s] = calls[s] + 1]
    /\ local_df' = [local_df EXCEPT ![s] = <<>>]
    /\ pending' = [pending EXCEPT ![s] = <<>>]
    /\ UNCHANGED <<now, recVars, scoreVars, log_exists, uiVars, apiVars, overlap>>

ConcNext == \E s \in Sessions : ConcPress(s) \/ ConcRead(s) \/ ConcWrite(s)

SpecConc == ConcInit /\ [][ConcNext]_vars

\* C10: log_action reads the whole log, appends in memory and rewrites the
\* file.  When the calls run strictly one after another no decision is lost:
\* the log holds every completed decision, in order.  (When two calls
\* interleave, the state of C10_LostUpdate is reachable.)
C10_SequentialNoLoss ==
    ~overlap => log_rows = written

\* C10 witness: both sessions have completed a log_action and the log holds
\* only one of the two decisions
C10_LostUpdate ==
    /\ \A s \in Sessions : pc[s] = "idle" /\ calls[s] = 1
    /\ Len(written) = 2
    /\ Len(log_rows) = 1

====
